---- MODULE Spec2Model ----
(***************************************************************************)
(* Model of the Quiz component                                             *)
(* (src/src/components/practices/funny_practices/Quiz.jsx).                *)
(*                                                                         *)
(* The component's state is its eight useState cells.  The environment is  *)
(* the question service (questionsApi.getAllQuestions), whose promise may  *)
(* reject with any value or resolve with any response.  JavaScript values  *)
(* are modelled as tagged records so that typeof, truthiness, strict       *)
(* equality and property access behave as they do in the language.         *)
(***************************************************************************)
EXTENDS Integers, Sequences, FiniteSets, TLC

(***************************************************************************)
(* Bounds of the model.                                                    *)
(***************************************************************************)
\* largest number of entries in one response batch
MaxBatch == 2
\* handleAnswer is not explored once score has reached this value
MaxScore == 3

(***************************************************************************)
(* JavaScript values.                                                      *)
(***************************************************************************)
Undefined == [type |-> "undefined"]
Null == [type |-> "null"]
Str(s) == [type |-> "string", val |-> s]
Num(s) == [type |-> "number", val |-> s]
Arr(items) == [type |-> "array", items |-> items]

\* typeof v === "string"
IsString(v) == v.type = "string"

\* Array.isArray(v)
IsArray(v) == v.type = "array"

\* ToBoolean(v): undefined, null, "" and 0 are falsy
Truthy(v) ==
    CASE v.type = "undefined" -> FALSE
      [] v.type = "null" -> FALSE
      [] v.type = "string" -> v.val # ""
      [] v.type = "number" -> v.val # "0"
      [] OTHER -> TRUE

\* a || b
OrElse(a, b) == IF Truthy(a) THEN a ELSE b

\* reading a property of null or undefined throws a TypeError
PropertyReadThrows(v) == v.type \in {"null", "undefined"}

\* v[field] for a value whose property read does not throw
Get(v, field) ==
    IF v.type = "object" /\ field \in DOMAIN v THEN v[field] ELSE Undefined

\* an Error (or any object) carrying a message property
ErrorObject(msg) == [type |-> "object", message |-> msg]

(***************************************************************************)
(* Messages.                                                               *)
(***************************************************************************)
FetchFailedMessage == "Failed to fetch questions"
NoValidQuestionsMessage == "No valid questions available for this level."
FallbackMessage == "Failed to load questions. Please try again."
\* the engine's message of a TypeError (its text is engine specific, never empty)
TypeErrorMessage == "TypeError"

(***************************************************************************)
(* Entries a response batch may hold.                                      *)
(***************************************************************************)
Content(q, c, w, e) ==
    [type |-> "object", question |-> q, correctAnswer |-> c,
     wrongAnswers |-> w, explanation |-> e]

Record(id, content) == [type |-> "object", _id |-> Str(id), content |-> content]

Catalogue ==
    << \* well-formed record with an explanation
       Record("r1", Content(Str("Q1"), Str("a"), Arr(<<Str("b")>>), Str("why"))),
       \* every field is a string; the correct answer is the empty string
       Record("r2", Content(Str("Q2"), Str(""), Arr(<<Str("b")>>), Undefined)),
       \* wrongAnswers holds a non-string element
       Record("r3", Content(Str("Q3"), Str("a"), Arr(<<Num("0")>>), Undefined)),
       \* question is not a string
       Record("r4", Content(Num("7"), Str("a"), Arr(<<Str("b")>>), Undefined)),
       \* correctAnswer is missing
       Record("r5", Content(Str("Q5"), Undefined, Arr(<<Str("b")>>), Undefined)),
       \* wrongAnswers is missing
       Record("r6", Content(Str("Q6"), Str("a"), Undefined, Undefined)),
       \* wrongAnswers is not a sequence
       Record("r7", Content(Str("Q7"), Str("a"), Str("b"), Undefined)),
       \* wrongAnswers is empty
       Record("r8", Content(Str("Q8"), Str("a"), Arr(<<>>), Undefined)),
       \* record without content
       Record("r9", Undefined),
       \* null entry
       Null,
       \* non-object entry
       Num("5"),
       \* every field is a string; every option is the empty string
       Record("r10", Content(Str("Q10"), Str(""), Arr(<<Str("")>>), Undefined)) >>

RECURSIVE SeqOfIndices(_)
\* the entries of a set of catalogue indices, in catalogue order
SeqOfIndices(S) ==
    IF S = {} THEN <<>>
    ELSE LET m == CHOOSE x \in S : \A y \in S : x <= y
         IN <<Catalogue[m]>> \o SeqOfIndices(S \ {m})

\* Response batches: at most MaxBatch distinct catalogue entries.  The order
\* of the entries is immaterial to the loader, which shuffles what it keeps.
Batches ==
    { SeqOfIndices(S) : S \in { T \in SUBSET (1..Len(Catalogue)) : Cardinality(T) <= MaxBatch } }

Levels == { Str("beginner"), Str("advanced") }

\* values the promise of getAllQuestions may reject with
RejectionValues ==
    { ErrorObject(Str("Network Error")), ErrorObject(Str("")), Str("timeout"), Undefined }

\* values the promise of getAllQuestions may resolve with
Response(data) == [type |-> "object", data |-> data]

ResolutionValues ==
    { Undefined, Response(Undefined), Response(Num("1")) }
      \cup { Response(Arr(b)) : b \in Batches }

NoSettlement == [kind |-> "none", value |-> Undefined]

(***************************************************************************)
(* State.                                                                  *)
(***************************************************************************)
VARIABLES
    selectedLevel,    \* null or the chosen level
    questions,        \* sequence of Question
    currentQuestion,  \* 0-based index into questions
    selectedAnswer,   \* null or the option passed to handleAnswer
    score,
    showResults,
    loading,
    error,            \* null or the message shown
    inflight,         \* levels of the getAllQuestions calls not yet settled
    uncaught,         \* TRUE once a fetchQuestions promise rejected
    settled,          \* settlement consumed by the latest step, if it was a fetch completion
    startedBy,        \* history: the control that started the latest fetchQuestions call
    hits,             \* history: selections of this session that equalled the answer
    repicked          \* history: some question of this session was answered more than once

vars == << selectedLevel, questions, currentQuestion, selectedAnswer, score,
           showResults, loading, error, inflight, uncaught, settled,
           startedBy, hits, repicked >>

\* what the user has done in the session
history == << hits, repicked >>

session == << questions, currentQuestion, selectedAnswer, score, showResults >>

(***************************************************************************)
(* fetchQuestions: validation and reshaping of one batch.                  *)
(***************************************************************************)
\* const content = q.content || {}
ContentOf(q) == OrElse(Get(q, "content"), [type |-> "object"])

\* faulty variant of PassesCheck: the length of wrongAnswers is not checked
PassesCheckAnyLength(q) ==
    LET content == ContentOf(q)
    IN /\ IsString(Get(content, "question"))
       /\ IsString(Get(content, "correctAnswer"))
       /\ IsArray(Get(content, "wrongAnswers"))

\* the record passes the defensive check
PassesCheck(q) ==
    LET content == ContentOf(q)
    IN /\ IsString(Get(content, "question"))
       /\ IsString(Get(content, "correctAnswer"))
       /\ IsArray(Get(content, "wrongAnswers"))
       /\ Len(Get(content, "wrongAnswers").items) >= 1

\* faulty variant of RawOptions: the correct answer is not appended
RawOptionsWrongOnly(q) ==
    Get(ContentOf(q), "wrongAnswers").items

\* [...content.wrongAnswers, content.correctAnswer] before it is shuffled
RawOptions(q) ==
    Get(ContentOf(q), "wrongAnswers").items \o << Get(ContentOf(q), "correctAnswer") >>

\* Array.prototype.sort with a random comparator: any permutation may result
Shuffles(s) ==
    { [i \in 1..Len(s) |-> s[p[i]]] : p \in Permutations(1..Len(s)) }

\* the Question built from a record that passed the check, its options in the order opts
Question(q, opts) ==
    [ id |-> OrElse(Get(q, "_id"), Get(q, "id")),
      question |-> Get(ContentOf(q), "question"),
      options |-> opts,
      answer |-> Get(ContentOf(q), "correctAnswer"),
      explanation |-> OrElse(Get(ContentOf(q), "explanation"), Str("")),
      feedback |-> OrElse(Get(ContentOf(q), "explanation"), Str("")) ]

\* q.content throws for a null or undefined entry
MapThrows(batch) == \E i \in 1..Len(batch) : PropertyReadThrows(batch[i])

\* .filter(Boolean) over the mapped batch: the records that produced a Question
Kept(batch) == SelectSeq(batch, PassesCheck)

RECURSIVE FormattedQuestions(_)
\* the possible values of formattedQuestions for the kept records
FormattedQuestions(kept) ==
    IF kept = <<>> THEN { <<>> }
    ELSE { <<Question(Head(kept), opts)>> \o rest :
             opts \in Shuffles(RawOptions(Head(kept))),
             rest \in FormattedQuestions(Tail(kept)) }

\* the possible values of shuffledQuestions
ShuffledQuestions(batch) ==
    UNION { Shuffles(f) : f \in FormattedQuestions(Kept(batch)) }

(***************************************************************************)
(* fetchQuestions: the try block, the catch handler and the finally block. *)
(***************************************************************************)
\* the value thrown inside the try block, or NotThrown
NotThrown == [type |-> "none"]

Thrown(s) ==
    IF s.kind = "rejected" THEN s.value
    ELSE IF ~Truthy(s.value) \/ ~Truthy(Get(s.value, "data"))
         THEN ErrorObject(Str(FetchFailedMessage))
    ELSE IF ~IsArray(Get(s.value, "data"))
         THEN ErrorObject(Str(TypeErrorMessage))
    ELSE IF MapThrows(Get(s.value, "data").items)
         THEN ErrorObject(Str(TypeErrorMessage))
    ELSE IF Len(Kept(Get(s.value, "data").items)) = 0
         THEN ErrorObject(Str(NoValidQuestionsMessage))
    ELSE NotThrown

\* err.message in the catch handler throws when err is null or undefined
CatchThrows(err) == PropertyReadThrows(err)

\* err.message || "Failed to load questions. Please try again."
CatchMessage(err) == OrElse(Get(err, "message"), Str(FallbackMessage))

\* faulty variant of fetchQuestions: loading is not set before the await
fetchQuestionsKeepsLoading ==
    /\ error' = Null
    /\ inflight' = Append(inflight, selectedLevel')
    /\ settled' = NoSettlement
    /\ UNCHANGED << session, uncaught, history, loading >>

\* lines 24-27: the synchronous part of fetchQuestions, up to the await
fetchQuestions ==
    /\ loading' = TRUE
    /\ error' = Null
    /\ inflight' = Append(inflight, selectedLevel')
    /\ settled' = NoSettlement
    /\ UNCHANGED << session, uncaught, history >>

(***************************************************************************)
(* The view the component renders, and the controls each view offers.      *)
(***************************************************************************)
\* faulty variant of View: the loading view is never rendered
ViewIgnoringLoading ==
    IF ~Truthy(selectedLevel) THEN "LevelSelector"
    ELSE IF Truthy(error) THEN "Error"
    ELSE IF Len(questions) = 0 THEN "Empty"
    ELSE IF showResults THEN "Results"
    ELSE "Quiz"

View ==
    IF ~Truthy(selectedLevel) THEN "LevelSelector"
    ELSE IF loading THEN "Loading"
    ELSE IF Truthy(error) THEN "Error"
    ELSE IF Len(questions) = 0 THEN "Empty"
    ELSE IF showResults THEN "Results"
    ELSE "Quiz"

\* questions[currentQuestion]
Current == questions[currentQuestion + 1]

\* disabled={!!selectedAnswer} on the option buttons
OptionsDisabled == Truthy(selectedAnswer)

\* disabled={!selectedAnswer} on the Next / Show Results button
NextDisabled == ~Truthy(selectedAnswer)

\* {selectedAnswer && <div>explanation</div>}
ExplanationShown == Truthy(selectedAnswer)

\* Math.round((s / n) * 100) for 0 <= s and 1 <= n.  Math.round rounds halves
\* up; for n < 40 the double result of (s / n) * 100 rounds to the same
\* integer as the exact quotient.
PercentageOf(s, n) == (200 * s + n) \div (2 * n)

\* the percentage shown in the results view
Percentage == PercentageOf(score, Len(questions))

(***************************************************************************)
(* Event handlers.                                                         *)
(***************************************************************************)
\* LevelSelector calls onLevelSelect; the effect on selectedLevel then runs
handleLevelSelect(level) ==
    /\ View = "LevelSelector"
    /\ selectedLevel' = level
    /\ IF Truthy(level)
       THEN fetchQuestions /\ startedBy' = "select"
       ELSE /\ settled' = NoSettlement
            /\ UNCHANGED << session, loading, error, inflight, uncaught,
                            history, startedBy >>

\* faulty variant of ScoreAfter: every selection scores
ScoreAfterAnyOption(option) == score + 1

\* score after handleAnswer(option) has passed its guard
ScoreAfter(option) ==
    IF option = Current.answer THEN score + 1 ELSE score

\* the body of handleAnswer
handleAnswerBody(option) ==
    IF ~Truthy(selectedAnswer)
    THEN /\ selectedAnswer' = option
         /\ score' = ScoreAfter(option)
    ELSE UNCHANGED << selectedAnswer, score >>

\* a click on the i-th option button of the displayed question
handleAnswer(i) ==
    /\ View = "Quiz"
    /\ ~OptionsDisabled
    /\ i \in 1..Len(Current.options)
    /\ score < MaxScore
    /\ handleAnswerBody(Current.options[i])
    /\ hits' = IF Current.options[i] = Current.answer THEN hits + 1 ELSE hits
    /\ repicked' = (repicked \/ selectedAnswer # Null)
    /\ settled' = NoSettlement
    /\ UNCHANGED << selectedLevel, questions, currentQuestion, showResults,
                    loading, error, inflight, uncaught, startedBy >>

\* faulty variant of handleNext: the last question is reached one step early
handleNextOffByOne ==
    /\ View = "Quiz"
    /\ ~NextDisabled
    /\ IF currentQuestion < Len(questions) - 2
       THEN /\ currentQuestion' = currentQuestion + 1
            /\ selectedAnswer' = Null
            /\ UNCHANGED showResults
       ELSE /\ showResults' = TRUE
            /\ UNCHANGED << currentQuestion, selectedAnswer >>
    /\ settled' = NoSettlement
    /\ UNCHANGED << selectedLevel, questions, score, loading, error, inflight,
                    uncaught, history, startedBy >>

\* a click on the Next Question / Show Results button
handleNext ==
    /\ View = "Quiz"
    /\ ~NextDisabled
    /\ IF currentQuestion < Len(questions) - 1
       THEN /\ currentQuestion' = currentQuestion + 1
            /\ selectedAnswer' = Null
            /\ UNCHANGED showResults
       ELSE /\ showResults' = TRUE
            /\ UNCHANGED << currentQuestion, selectedAnswer >>
    /\ settled' = NoSettlement
    /\ UNCHANGED << selectedLevel, questions, score, loading, error, inflight,
                    uncaught, history, startedBy >>

\* a click on Try Again in the results view
handleRestart ==
    /\ View = "Results"
    /\ UNCHANGED selectedLevel
    /\ fetchQuestions
    /\ startedBy' = "restart"

\* a click on Try Again in the error view
Retry ==
    /\ View = "Error"
    /\ UNCHANGED selectedLevel
    /\ fetchQuestions
    /\ startedBy' = "retry"

\* a click on Change Level / Choose Different Level: setSelectedLevel(null)
ChangeLevel ==
    /\ View \in {"Error", "Empty", "Results"}
    /\ selectedLevel' = Null
    /\ settled' = NoSettlement
    /\ UNCHANGED << session, loading, error, inflight, uncaught, history, startedBy >>

(***************************************************************************)
(* Completion of a pending getAllQuestions call: the rest of               *)
(* fetchQuestions runs with the settlement s.                              *)
(***************************************************************************)
\* faulty variant of Install: the score of the previous session is kept
InstallKeepsScore(qs) ==
    /\ questions' = qs
    /\ currentQuestion' = 0
    /\ selectedAnswer' = Null
    /\ showResults' = FALSE
    /\ UNCHANGED score

\* faulty variant of Install: the index of the previous session is kept
InstallKeepsIndex(qs) ==
    /\ questions' = qs
    /\ selectedAnswer' = Null
    /\ score' = 0
    /\ showResults' = FALSE
    /\ UNCHANGED currentQuestion

\* lines 64-68: the new session
Install(qs) ==
    /\ questions' = qs
    /\ currentQuestion' = 0
    /\ selectedAnswer' = Null
    /\ score' = 0
    /\ showResults' = FALSE

\* faulty variant of Catch: a failed load empties the question sequence
CatchClearsQuestions(err) ==
    IF CatchThrows(err)
    THEN /\ uncaught' = TRUE
         /\ UNCHANGED << session, error >>
    ELSE /\ error' = CatchMessage(err)
         /\ questions' = <<>>
         /\ UNCHANGED << currentQuestion, selectedAnswer, score, showResults, uncaught >>

\* lines 69-71: the catch handler
Catch(err) ==
    IF CatchThrows(err)
    THEN /\ uncaught' = TRUE
         /\ UNCHANGED << session, error >>
    ELSE /\ error' = CatchMessage(err)
         /\ UNCHANGED << session, uncaught >>

FetchSettle(k, s) ==
    /\ k \in 1..Len(inflight)
    /\ inflight' = SubSeq(inflight, 1, k - 1) \o SubSeq(inflight, k + 1, Len(inflight))
    /\ settled' = s
    /\ loading' = FALSE
    /\ UNCHANGED << selectedLevel, startedBy >>
    /\ LET err == Thrown(s)
       IN IF err = NotThrown
          THEN /\ \E qs \in ShuffledQuestions(Get(s.value, "data").items) : Install(qs)
               /\ hits' = 0
               /\ repicked' = FALSE
               /\ UNCHANGED << error, uncaught >>
          ELSE /\ Catch(err)
               /\ UNCHANGED history

FetchReject ==
    \E k \in 1..Len(inflight) : \E v \in RejectionValues :
        FetchSettle(k, [kind |-> "rejected", value |-> v])

FetchResolve ==
    \E k \in 1..Len(inflight) : \E v \in ResolutionValues :
        FetchSettle(k, [kind |-> "resolved", value |-> v])

(***************************************************************************)
(* Specification.                                                          *)
(***************************************************************************)
Init ==
    /\ selectedLevel = Null
    /\ questions = <<>>
    /\ currentQuestion = 0
    /\ selectedAnswer = Null
    /\ score = 0
    /\ showResults = FALSE
    /\ loading = FALSE
    /\ error = Null
    /\ inflight = <<>>
    /\ uncaught = FALSE
    /\ settled = NoSettlement
    /\ startedBy = "none"
    /\ hits = 0
    /\ repicked = FALSE

Next ==
    \/ \E level \in Levels : handleLevelSelect(level)
    \/ \E i \in 1..(MaxBatch + 1) : handleAnswer(i)
    \/ handleNext
    \/ handleRestart
    \/ Retry
    \/ ChangeLevel
    \/ FetchReject
    \/ FetchResolve

Spec == Init /\ [][Next]_vars

(***************************************************************************)
(* Vocabulary of the properties.                                           *)
(***************************************************************************)
\* Answering: a question is displayed and no answer has been chosen for it
Answering == View = "Quiz" /\ selectedAnswer = Null

\* the indices an option button can have
OptionIndices == 1..(MaxBatch + 1)

\* the latest step completed a fetch whose response carried a batch
BatchSettled ==
    /\ settled.kind = "resolved"
    /\ Get(settled.value, "data").type = "array"

\* the batch of that response
SettledBatch == Get(settled.value, "data").items

\* field f of the content of a batch entry (undefined when there is none)
Field(q, f) == Get(Get(q, "content"), f)

\* the record lacks a string question or correctAnswer, or its wrongAnswers
\* is missing, not a sequence, or empty
Malformed(q) ==
    \/ Field(q, "question").type # "string"
    \/ Field(q, "correctAnswer").type # "string"
    \/ Field(q, "wrongAnswers").type # "array"
    \/ Field(q, "wrongAnswers").items = <<>>

\* a valid RawQuestionRecord: question and correctAnswer are strings and
\* wrongAnswers is a non-empty sequence of strings
ValidRecord(q) ==
    /\ ~Malformed(q)
    /\ \A j \in 1..Len(Field(q, "wrongAnswers").items) :
           Field(q, "wrongAnswers").items[j].type = "string"

\* the question sequence qs holds a question built from the batch entry q
InstalledIn(qs, q) ==
    \E j \in 1..Len(qs) : qs[j].id = Get(q, "_id")

Installed(q) == InstalledIn(questions, q)

\* sequences s and t hold the same elements the same number of times
IsPermutation(s, t) ==
    /\ Len(s) = Len(t)
    /\ \E p \in Permutations(1..Len(s)) : \A i \in 1..Len(s) : s[i] = t[p[i]]

(***************************************************************************)
(* C1.  In Answering, handleAnswer(option) adds exactly 1 to score when    *)
(* option equals the answer of the current question and leaves score       *)
(* unchanged otherwise, for every admitted question and every option.      *)
(***************************************************************************)
C1_ScoreOnAnswer ==
    [][\A i \in OptionIndices :
         (Answering /\ handleAnswer(i)) =>
             score' = score + (IF Current.options[i] = Current.answer THEN 1 ELSE 0)]_vars

\* a correct option was chosen in Answering and the score went from 0 to 1
C1_Witness ==
    /\ View = "Quiz"
    /\ Truthy(selectedAnswer)
    /\ selectedAnswer = Current.answer
    /\ currentQuestion = 0
    /\ score = 1

(***************************************************************************)
(* C2.  Once handleAnswer has been applied to the current question, every  *)
(* further handleAnswer call on that question leaves selectedAnswer and    *)
(* score unchanged.                                                        *)
(***************************************************************************)
C2_SingleSelection ==
    [][\A i \in OptionIndices :
         (View = "Quiz" /\ selectedAnswer # Null /\ handleAnswer(i)) =>
             UNCHANGED << selectedAnswer, score >>]_vars

(***************************************************************************)
(* C3.  In Answering, selecting any displayed option moves the runner to   *)
(* Revealed: the option buttons are disabled, the explanation is shown and *)
(* the advance button is enabled.                                          *)
(***************************************************************************)
C3_SelectReveals ==
    [][\A i \in OptionIndices :
         (Answering /\ handleAnswer(i)) =>
             /\ selectedAnswer' # Null
             /\ OptionsDisabled'
             /\ ExplanationShown'
             /\ ~NextDisabled']_vars

(***************************************************************************)
(* C4.  When a fetch completes with a batch, no malformed record of the    *)
(* batch is in the installed question sequence, no exception escapes, and  *)
(* loading is false with either a fresh session or an error message.       *)
(***************************************************************************)
C4_MalformedExcluded ==
    [][BatchSettled' =>
         /\ \A i \in 1..Len(SettledBatch') :
                Malformed(SettledBatch'[i]) => ~InstalledIn(questions', SettledBatch'[i])
         /\ uncaught' = uncaught
         /\ loading' = FALSE
         /\ \/ Truthy(error')
            \/ /\ Len(questions') >= 1
               /\ currentQuestion' = 0
               /\ selectedAnswer' = Null
               /\ score' = 0
               /\ showResults' = FALSE]_vars

\* a batch with a malformed record and a valid one was loaded: one question is installed
C4_Witness ==
    /\ BatchSettled
    /\ \E i \in 1..Len(SettledBatch) :
           Malformed(SettledBatch[i]) /\ Get(SettledBatch[i], "_id") # Undefined
    /\ \E i \in 1..Len(SettledBatch) : Installed(SettledBatch[i])
    /\ Len(questions) = 1
    /\ View = "Quiz"

(***************************************************************************)
(* C5.  A batch with at least one valid record always loads: the runner    *)
(* shows the quiz with exactly the valid records and no error.             *)
(***************************************************************************)
C5_MalformedNeverAborts ==
    (BatchSettled /\ \E i \in 1..Len(SettledBatch) : ValidRecord(SettledBatch[i])) =>
        /\ error = Null
        /\ View = "Quiz"
        /\ \A i \in 1..Len(SettledBatch) :
               ValidRecord(SettledBatch[i]) <=> Installed(SettledBatch[i])

(***************************************************************************)
(* C6.  Every option of every question of the session is a string.         *)
(***************************************************************************)
C6_OptionsAreStrings ==
    \A i \in 1..Len(questions) : \A j \in 1..Len(questions[i].options) :
        questions[i].options[j].type = "string"

(***************************************************************************)
(* C7.  A successful load installs a permutation of the valid records of   *)
(* the batch, and the options of each question are a permutation of its    *)
(* wrongAnswers plus its correctAnswer.                                    *)
(***************************************************************************)
C7_LoadIsPermutation ==
    (BatchSettled /\ error = Null /\ ~uncaught
       /\ \E i \in 1..Len(SettledBatch) : ValidRecord(SettledBatch[i])) =>
        LET valid == SelectSeq(SettledBatch, ValidRecord)
        IN /\ Len(questions) = Len(valid)
           /\ IsPermutation([i \in 1..Len(questions) |-> questions[i].id],
                            [i \in 1..Len(valid) |-> Get(valid[i], "_id")])
           /\ \A i \in 1..Len(questions) : \A k \in 1..Len(valid) :
                  questions[i].id = Get(valid[k], "_id") =>
                      IsPermutation(questions[i].options,
                                    Field(valid[k], "wrongAnswers").items
                                        \o << Field(valid[k], "correctAnswer") >>)

C9_NoValidRecords ==
    (BatchSettled /\ \A i \in 1..Len(SettledBatch) : ~ValidRecord(SettledBatch[i])) =>
        /\ error = Str(NoValidQuestionsMessage)
        /\ View = "Error"

(***************************************************************************)
(* C10.  When the remote call rejects, or resolves with no response or no  *)
(* data, the runner is in Error with a non-empty message and loading is    *)
(* false; retry returns to Loading for the same level and change level     *)
(* returns to the level selector.                                          *)
(***************************************************************************)
FetchFailed ==
    \/ settled.kind = "rejected"
    \/ /\ settled.kind = "resolved"
       /\ ~Truthy(settled.value) \/ ~Truthy(Get(settled.value, "data"))

C10_FailureIsRecoverable ==
    /\ [](FetchFailed =>
            /\ loading = FALSE
            /\ error.type = "string" /\ error.val # ""
            /\ View = "Error"
            /\ ENABLED Retry
            /\ ENABLED ChangeLevel)
    /\ [][(View = "Error" /\ Retry) =>
            (View' = "Loading" /\ selectedLevel' = selectedLevel)]_vars
    /\ [][(View = "Error" /\ ChangeLevel) => View' = "LevelSelector"]_vars

(***************************************************************************)
(* C11.  When every question of a session of n questions was answered once *)
(* and k of the selections were correct, advancing past the last question  *)
(* sets showResults with score = k and the percentage shown is k / n * 100 *)
(* rounded to the nearest integer (3 of 4 gives 75, 3 of 5 gives 60);      *)
(* advancing before the last question never sets showResults.              *)
(***************************************************************************)
\* p is 100 * k / n rounded to the nearest integer, halves rounded up
IsRounded(p, k, n) == 2 * n * p <= 200 * k + n /\ 200 * k + n < 2 * n * (p + 1)

C12_RestartReloads ==
    /\ [][(View = "Results" /\ handleRestart) => View' = "Loading"]_vars
    /\ [][(startedBy = "restart" /\ View # "Quiz" /\ View' = "Quiz") =>
            /\ BatchSettled'
            /\ Len(questions') >= 1
            /\ \A j \in 1..Len(questions') :
                   \E i \in 1..Len(SettledBatch') :
                       /\ questions'[j].id = Get(SettledBatch'[i], "_id")
                       /\ questions'[j].question = Field(SettledBatch'[i], "question")
                       /\ questions'[j].answer = Field(SettledBatch'[i], "correctAnswer")
            /\ score' = 0
            /\ currentQuestion' = 0
            /\ selectedAnswer' = Null
            /\ showResults' = FALSE]_vars

\* the quiz is shown again after a restart
C12_Witness ==
    /\ startedBy = "restart"
    /\ BatchSettled
    /\ View = "Quiz"
    /\ score = 0
    /\ currentQuestion = 0

(***************************************************************************)
(* C13.  Change level returns to the level selector and clears the         *)
(* session: questions, currentQuestion, selectedAnswer, score, showResults *)
(* and error hold their initial values afterwards.                         *)
(***************************************************************************)
C13_ChangeLevelClears ==
    [][ChangeLevel =>
         /\ View' = "LevelSelector"
         /\ questions' = <<>>
         /\ currentQuestion' = 0
         /\ selectedAnswer' = Null
         /\ score' = 0
         /\ showResults' = FALSE
         /\ error' = Null]_vars

(***************************************************************************)
(* C14.  At most one getAllQuestions call is pending at any time.          *)
(***************************************************************************)
C14_SingleFetch == Len(inflight) <= 1

\* a retry is pending
C14_Witness ==
    /\ Len(inflight) = 1
    /\ startedBy = "retry"

(***************************************************************************)
(* C15.  While a fetch is pending the loading view is shown, no user       *)
(* action is enabled, and the session does not change.                     *)
(***************************************************************************)
UserAction ==
    \/ \E level \in Levels : handleLevelSelect(level)
    \/ \E i \in OptionIndices : handleAnswer(i)
    \/ handleNext
    \/ handleRestart
    \/ Retry
    \/ ChangeLevel

C15_LoadingIgnoresInput ==
    /\ [](inflight # <<>> => (View = "Loading" /\ ~ENABLED UserAction))
    /\ [][inflight' # <<>> => UNCHANGED session]_vars

\* a restart is pending while the finished session is still held
C15_Witness ==
    /\ inflight # <<>>
    /\ startedBy = "restart"
    /\ showResults
    /\ Len(questions) >= 1

(***************************************************************************)
(* C16.  The runner moves only along the listed edges, an action outside   *)
(* its state changes nothing, advance is impossible before an answer is    *)
(* selected and answering is impossible in Finished.                       *)
(***************************************************************************)
Phase ==
    CASE View = "LevelSelector" -> "AwaitingLevel"
      [] View = "Loading" -> "Loading"
      [] View = "Error" -> "Error"
      [] View = "Results" -> "Finished"
      [] View = "Quiz" -> IF selectedAnswer = Null THEN "Answering" ELSE "Revealed"
      [] OTHER -> "Unlisted"

Edges ==
    { <<"AwaitingLevel", "Loading">>,
      <<"Loading", "Answering">>, <<"Loading", "Error">>,
      <<"Answering", "Revealed">>,
      <<"Revealed", "Answering">>, <<"Revealed", "Finished">>,
      <<"Finished", "Loading">>, <<"Finished", "AwaitingLevel">>,
      <<"Error", "Loading">>, <<"Error", "AwaitingLevel">> }

observable == << selectedLevel, session, loading, error >>

C16_OnlyListedEdges ==
    /\ [][/\ Phase' # Phase => << Phase, Phase' >> \in Edges
          /\ Phase' = Phase => UNCHANGED observable
          /\ (Phase = "Revealed" /\ Phase' = "Answering") =>
                 (currentQuestion' = currentQuestion + 1 /\ selectedAnswer' = Null)]_vars
    /\ [](Phase = "Answering" => ~ENABLED handleNext)
    /\ [](Phase = "Finished" => ~ENABLED (\E i \in OptionIndices : handleAnswer(i)))

(***************************************************************************)
(* C17.  0 <= score <= number of questions answered so far <=              *)
(* questions.length, and the percentage shown is between 0 and 100.        *)
(***************************************************************************)
\* the questions of the session that have received an answer
Answered ==
    IF Len(questions) = 0 THEN 0
    ELSE currentQuestion + (IF selectedAnswer = Null THEN 0 ELSE 1)

C17_ScoreBounded ==
    /\ 0 <= score
    /\ score <= Answered
    /\ Answered <= Len(questions)
    /\ View = "Results" => (0 <= Percentage /\ Percentage <= 100)

(***************************************************************************)
(* C18.  When the quiz or the results are shown, currentQuestion indexes a *)
(* question; currentQuestion changes only by +1 in handleNext or to 0 in a *)
(* successful load.                                                        *)
(***************************************************************************)
C18_IndexInRange ==
    /\ [](View \in {"Quiz", "Results"} =>
            (0 <= currentQuestion /\ currentQuestion < Len(questions)))
    /\ [][currentQuestion' # currentQuestion =>
            \/ handleNext /\ currentQuestion' = currentQuestion + 1
            \/ /\ currentQuestion' = 0
               /\ BatchSettled'
               /\ error' = Null
               /\ View' = "Quiz"]_vars

\* a restart loaded a batch of one record: a single question is shown at index 0
C18_Witness ==
    /\ startedBy = "restart"
    /\ BatchSettled
    /\ View = "Quiz"
    /\ Len(questions) = 1
    /\ Len(SettledBatch) = 1

(***************************************************************************)
(* C19.  A failed load changes only error and loading; the session is      *)
(* replaced, all of it together, only when a load succeeds.                *)
(***************************************************************************)
\* the remote call failed, the payload is missing, or the check admits no record
FailedLoad ==
    \/ FetchFailed
    \/ BatchSettled /\ \A i \in 1..Len(SettledBatch) : Malformed(SettledBatch[i])

C19_FailedLoadKeepsSession ==
    [][settled'.kind # "none" =>
         /\ (FailedLoad' \/ Truthy(error') \/ uncaught' # uncaught) =>
                UNCHANGED << session, selectedLevel >>
         /\ session' # session =>
                /\ BatchSettled'
                /\ error' = Null
                /\ Len(questions') >= 1
                /\ currentQuestion' = 0
                /\ selectedAnswer' = Null
                /\ score' = 0
                /\ showResults' = FALSE]_vars

\* a restart failed and the finished session is still held
C19_Witness ==
    /\ FailedLoad
    /\ Truthy(error)
    /\ View = "Error"
    /\ showResults
    /\ score >= 1
    /\ currentQuestion = 1

(***************************************************************************)
(* C20.  Every started session can be completed; in particular no question *)
(* leaves the runner where neither advance nor a selection that enables    *)
(* advance is possible: either the advance button is enabled or some       *)
(* option can be selected that enables it.                                 *)
(***************************************************************************)
C20_NeverStuck ==
    View = "Quiz" =>
        \/ ~NextDisabled
        \/ /\ ~OptionsDisabled
           /\ \E i \in 1..Len(Current.options) : Truthy(Current.options[i])

====
